---- MODULE Spec2Model ----
(***************************************************************************)
(* Model of scripts/create_labels_v2.py: the batch pipeline that labels    *)
(* gridded observation files with tropical-cyclone genesis information     *)
(* taken from an IBTrACS best-track catalog.                               *)
(*                                                                         *)
(* Timestamps are integers (hours).  A pandas table is a sequence of       *)
(* records; a cell that may be NaN/None is a sequence of length 0 or 1.    *)
(***************************************************************************)
EXTENDS Integers, Sequences, FiniteSets, TLC

(* ------------------------------ bounds -------------------------------- *)

\* Largest number of files in the observations directory.
MaxFiles == 2

\* Largest number of data rows in the best-track catalog.
MaxTrack == 2

\* Catalog longitudes fed to the longitude conversion are -MaxLon..MaxLon.
MaxLon == 400

(* --------------------------- input universes --------------------------- *)

SIDs == {"A", "B"}

Natures == {"TD", "TS"}

Hours == {0, 1}

LeadTimes == {0, 1}

\* (LAT, LON) as written in the catalog, LON in degrees east in -180..180.
\* (20, -160) lies on the corner of both grids below once converted to 200
\* degrees east; (20, 170) lies inside the grid of the "b" files only.
Locs == {<<20, -160>>, <<20, 170>>}

\* A file name "<prefix>_<datepart>.nc": the prefix and the tokens that follow
\* it.  A well-formed datepart (YYYYMMDD_HH_MM) is one timestamp token; the
\* name "a.nc" has no datepart at all.  Prefix "x" names a corrupt NetCDF file.
FileNames ==
    {[prefix |-> "a", datepart |-> <<0>>],
     [prefix |-> "b", datepart |-> <<0>>],
     [prefix |-> "b", datepart |-> <<1>>],
     [prefix |-> "a", datepart |-> <<>>],
     [prefix |-> "x", datepart |-> <<0>>]}

Directories == {d \in SUBSET FileNames : Cardinality(d) <= MaxFiles}

\* The rows of the catalog file.  ISO_TIME is <<h>> when it matches
\* '%Y-%m-%d %H:%M:%S' and <<>> when it does not.  Storm "A" is on record as
\* a depression or a tropical storm, storm "B" as a depression only.
CsvRows ==
    {r \in [SID : SIDs, ISO_TIME : {<<h>> : h \in Hours}, LAT : {l[1] : l \in Locs},
            LON : {l[2] : l \in Locs}, NATURE : Natures] :
        /\ <<r.LAT, r.LON>> \in Locs
        /\ r.SID = "B" => r.NATURE = "TD"}
        \cup {[SID |-> "A", ISO_TIME |-> <<>>, LAT |-> 20, LON |-> 170, NATURE |-> "TD"]}

Catalogs == UNION {[1..n -> CsvRows] : n \in 0..MaxTrack}

\* The lat/lon coordinate arrays stored in an observation file.
Grid(path) ==
    IF path.prefix = "a"
    THEN [lat |-> {0, 10, 20}, lon |-> {180, 190, 200}]
    ELSE [lat |-> {0, 10, 20}, lon |-> {160, 180, 200}]

Readable(path) == path.prefix # "x"

(* ------------------------------ helpers -------------------------------- *)

SetMin(S) == CHOOSE x \in S : \A y \in S : x <= y

SetMax(S) == CHOOSE x \in S : \A y \in S : x >= y

RECURSIVE Concat(_)
Concat(ss) == IF ss = <<>> THEN <<>> ELSE Head(ss) \o Concat(Tail(ss))

\* All orders in which a set can be enumerated (glob.iglob gives no guarantee).
Enumerations(S) ==
    {s \in [1..Cardinality(S) -> S] : \A i, j \in DOMAIN s : i # j => s[i] # s[j]}

(* --------------------------- pure functions ---------------------------- *)

\* datetime.strptime('_'.join(stem.split('_')[1:]), '%Y%m%d_%H_%M'):
\* <<t>> on success, <<>> when strptime raises ValueError.
parse_date_from_nc_filename(filename) ==
    IF Len(filename.datepart) = 1 THEN <<filename.datepart[1]>> ELSE <<>>

\* DataFrame({'Date': dates, 'Path': filepaths}) for an enumeration of the
\* directory whose names all parse.
list_reanalysis_files(listing) ==
    [i \in DOMAIN listing |->
        [Date |-> parse_date_from_nc_filename(listing[i])[1], Path |-> listing[i]]]

\* The table left in the order the directory was enumerated in.
sort_values_skipped(df) == {df}

\* df.sort_values('Date'): the default sort is not stable, so every
\* arrangement of the rows that is ordered by Date is a possible result.
sort_values(df) ==
    {[i \in DOMAIN df |-> df[p[i]]] : p \in
        {q \in Enumerations(DOMAIN df) :
            \A i, j \in DOMAIN df : i < j => df[q[i]].Date <= df[q[j]].Date}}

\* (lat.min(), lat.max(), lon.min(), lon.max())
get_domain(path) ==
    LET g == Grid(path)
    IN  <<SetMin(g.lat), SetMax(g.lat), SetMin(g.lon), SetMax(g.lon)>>

\* The conversion written with l >= 0.
convert_longitude_ge(l) == IF l >= 0 THEN l ELSE 360 + l

\* lambda l: l if l > 0 else 360 + l
convert_longitude(l) == IF l > 0 THEN l ELSE 360 + l

\* The two masks combined with | in place of &.
filter_by_domain_or(df, dom) ==
    LET latmin == dom[1]
        latmax == dom[2]
        lonmin == dom[3]
        lonmax == dom[4]
        lon_mask(r) == r.LON >= lonmin /\ r.LON <= lonmax
        lat_mask(r) == r.LAT >= latmin /\ r.LAT <= latmax
    IN  SelectSeq(df, LAMBDA r : lon_mask(r) \/ lat_mask(r))

filter_by_domain(df, dom) ==
    LET latmin == dom[1]
        latmax == dom[2]
        lonmin == dom[3]
        lonmax == dom[4]
        lon_mask(r) == r.LON >= lonmin /\ r.LON <= lonmax
        lat_mask(r) == r.LAT >= latmin /\ r.LAT <= latmax
    IN  SelectSeq(df, LAMBDA r : lon_mask(r) /\ lat_mask(r))

\* pd.read_csv + pd.to_datetime + the longitude conversion, for a catalog
\* whose ISO_TIME cells all parse.
read_best_track(csv) ==
    [i \in DOMAIN csv |->
        [SID |-> csv[i].SID, Date |-> csv[i].ISO_TIME[1], LAT |-> csv[i].LAT,
         LON |-> convert_longitude(csv[i].LON), NATURE |-> csv[i].NATURE]]

\* df.groupby('SID', sort=False).first(): for each SID, in first-seen order,
\* the first row of the table that carries it.
groupby_first(df) ==
    LET isFirst(i) == \A j \in 1..(i - 1) : df[j].SID # df[i].SID
        pick[i \in 0..Len(df)] ==
            IF i = 0 THEN <<>>
            ELSE IF isFirst(i) THEN Append(pick[i - 1], df[i]) ELSE pick[i - 1]
    IN  pick[Len(df)]

\* (genesis_df, best_track_df), both filtered to the domain.
load_best_track(csv, dom) ==
    LET df == read_best_track(csv)
        genesis_df == groupby_first(df)
    IN  <<filter_by_domain(genesis_df, dom), filter_by_domain(df, dom)>>

\* The join written with how='inner': a file without a genesis event is lost.
merge_inner(files, genesis) ==
    LET matches(f) == SelectSeq(genesis, LAMBDA g : g.Date = f.Date)
        joined(f, g) ==
            [Date |-> f.Date, OriginalDate |-> f.OriginalDate, Path |-> f.Path,
             SID |-> <<g.SID>>, LAT |-> <<g.LAT>>, LON |-> <<g.LON>>,
             NATURE |-> <<g.NATURE>>]
        rowsOf(f) == [k \in DOMAIN matches(f) |-> joined(f, matches(f)[k])]
    IN  Concat([i \in DOMAIN files |-> rowsOf(files[i])])

\* pd.merge(files_df, genesis_df, how='left', on='Date'): every row of
\* files_df, in order, once per genesis row with the same Date, or once with
\* NaN genesis columns when there is none.
merge_left(files, genesis) ==
    LET matches(f) == SelectSeq(genesis, LAMBDA g : g.Date = f.Date)
        joined(f, g) ==
            [Date |-> f.Date, OriginalDate |-> f.OriginalDate, Path |-> f.Path,
             SID |-> <<g.SID>>, LAT |-> <<g.LAT>>, LON |-> <<g.LON>>,
             NATURE |-> <<g.NATURE>>]
        unmatched(f) ==
            [Date |-> f.Date, OriginalDate |-> f.OriginalDate, Path |-> f.Path,
             SID |-> <<>>, LAT |-> <<>>, LON |-> <<>>, NATURE |-> <<>>]
        rowsOf(f) ==
            IF matches(f) = <<>> THEN <<unmatched(f)>>
            ELSE [k \in DOMAIN matches(f) |-> joined(f, matches(f)[k])]
    IN  Concat([i \in DOMAIN files |-> rowsOf(files[i])])

has_genesis(row) == row.SID # <<>>

last_observed(row, best_track_df) ==
    LET df == SelectSeq(best_track_df, LAMBDA p : <<p.SID>> = row.SID)
    IN  df[Len(df)].Date

will_develop_to_tc(row, best_track_df) ==
    LET df == SelectSeq(best_track_df, LAMBDA p : <<p.SID>> = row.SID)
    IN  \E i \in DOMAIN df : df[i].NATURE = "TS"

develop_to_tc_date(row, best_track_df) ==
    IF will_develop_to_tc(row, best_track_df)
    THEN LET df == SelectSeq(best_track_df, LAMBDA p : <<p.SID>> = row.SID)
             ts == SelectSeq(df, LAMBDA p : p.NATURE = "TS")
         IN  <<ts[1].Date>>
    ELSE <<>>

\* The selection made on the shifted date in place of the original one.
other_tc_shifted(row, best_track_df) ==
    SelectSeq(best_track_df,
              LAMBDA p : p.Date = row.Date /\ <<p.SID>> # row.SID)

other_tc(row, best_track_df) ==
    SelectSeq(best_track_df,
              LAMBDA p : p.Date = row.OriginalDate /\ <<p.SID>> # row.SID)

\* One label per joined row.  The columns a non-genesis row lacks are empty.
create_label(row, best_track_df) ==
    LET is_genesis == has_genesis(row)
        other_tc_df == other_tc(row, best_track_df)
        other_tc_locations ==
            [k \in DOMAIN other_tc_df |-> <<other_tc_df[k].LAT, other_tc_df[k].LON>>]
    IN  IF is_genesis
        THEN [Date |-> row.Date,
              Genesis |-> is_genesis,
              TC |-> is_genesis,
              TC_Id |-> row.SID,
              Longitude |-> row.LON,
              Latitude |-> row.LAT,
              First_Observed |-> <<row.Date>>,
              Last_Observed |-> <<last_observed(row, best_track_df)>>,
              First_Observed_Type |-> row.NATURE,
              Will_Develop_to_TC |-> <<will_develop_to_tc(row, best_track_df)>>,
              Developing_Date |-> develop_to_tc_date(row, best_track_df),
              Is_Other_TC_Happening |-> Len(other_tc_df) > 0,
              Other_TC_Locations |-> other_tc_locations,
              Path |-> row.Path]
        ELSE [Date |-> row.Date,
              Genesis |-> is_genesis,
              TC |-> is_genesis,
              TC_Id |-> <<>>,
              Longitude |-> <<>>,
              Latitude |-> <<>>,
              First_Observed |-> <<>>,
              Last_Observed |-> <<>>,
              First_Observed_Type |-> <<>>,
              Will_Develop_to_TC |-> <<>>,
              Developing_Date |-> <<>>,
              Is_Other_TC_Happening |-> Len(other_tc_df) > 0,
              Other_TC_Locations |-> other_tc_locations,
              Path |-> row.Path]

create_labels(file_genesis_df, best_track_df) ==
    [i \in DOMAIN file_genesis_df |-> create_label(file_genesis_df[i], best_track_df)]

\* The mask written with & in place of |.
drop_pre_existing_and(labels) ==
    SelectSeq(labels, LAMBDA r : r.Genesis /\ ~r.Is_Other_TC_Happening)

\* labels_df[has_genesis | ~has_preexisting_storms]
drop_pre_existing(labels) ==
    SelectSeq(labels, LAMBDA r : r.Genesis \/ ~r.Is_Other_TC_Happening)

(* -------------------------------- state -------------------------------- *)

VARIABLES
    pc,                 \* the statement of main() that runs next
    error,              \* <<>> or <<exception>>: the exception that ended the run
    args,               \* <<>> or the parsed command line
    observations_dir,   \* the set of *.nc names found in --observations-dir
    files_df,
    domain,
    best_track_csv,     \* the rows of the --best-track file as read
    genesis_df,
    best_track_df,
    files_genesis_df,
    labels_df,
    output,             \* <<>> or <<table>>: the table in tc_<leadtime>h.csv
    lon_in,             \* a catalog longitude
    lon_out             \* <<>> or <<its converted value>>

vars ==
    <<pc, error, args, observations_dir, files_df, domain, best_track_csv,
      genesis_df, best_track_df, files_genesis_df, labels_df, output,
      lon_in, lon_out>>

Init ==
    /\ pc = "parse_arguments"
    /\ error = <<>>
    /\ args = <<>>
    /\ observations_dir = {}
    /\ files_df = <<>>
    /\ domain = <<>>
    /\ best_track_csv = <<>>
    /\ genesis_df = <<>>
    /\ best_track_df = <<>>
    /\ files_genesis_df = <<>>
    /\ labels_df = <<>>
    /\ output = <<>>
    /\ lon_in = 0
    /\ lon_out = <<>>

Running(stage) == pc = stage /\ error = <<>>

(* ------------------------------- actions ------------------------------- *)

\* args = parse_arguments(args)
ParseArguments ==
    /\ Running("parse_arguments")
    /\ \E l \in LeadTimes, k \in BOOLEAN :
        args' = [leadtime |-> l, keep_pre_existing_storms |-> k]
    /\ pc' = "list_reanalysis_files"
    /\ UNCHANGED <<error, observations_dir, files_df, domain, best_track_csv,
                   genesis_df, best_track_df, files_genesis_df, labels_df,
                   output, lon_in, lon_out>>

\* files_df = list_reanalysis_files(args.observations_dir).  strptime raises
\* ValueError on a name without a well-formed datepart, and the unpacking of
\* zip(*files) raises ValueError when the directory holds no *.nc file.
ListReanalysisFiles ==
    /\ Running("list_reanalysis_files")
    /\ \E d \in Directories : \E listing \in Enumerations(d) :
        /\ observations_dir' = d
        /\ IF \/ listing = <<>>
              \/ \E i \in DOMAIN listing : parse_date_from_nc_filename(listing[i]) = <<>>
           THEN /\ error' = <<"ValueError">>
                /\ UNCHANGED <<pc, files_df>>
           ELSE /\ files_df' = list_reanalysis_files(listing)
                /\ pc' = "shift_and_sort"
                /\ UNCHANGED error
    /\ UNCHANGED <<args, domain, best_track_csv, genesis_df, best_track_df,
                   files_genesis_df, labels_df, output, lon_in, lon_out>>

\* files_df['OriginalDate'] = files_df['Date'].copy()
\* files_df['Date'] = files_df['Date'].apply(lambda d: d + timedelta(hours=leadtime))
\* files_df = files_df.sort_values('Date')
ShiftAndSort ==
    /\ Running("shift_and_sort")
    /\ LET shifted ==
               [i \in DOMAIN files_df |->
                   [Date |-> files_df[i].Date + args.leadtime,
                    OriginalDate |-> files_df[i].Date,
                    Path |-> files_df[i].Path]]
       IN  files_df' \in sort_values(shifted)
    /\ pc' = "get_domain"
    /\ UNCHANGED <<error, args, observations_dir, domain, best_track_csv,
                   genesis_df, best_track_df, files_genesis_df, labels_df,
                   output, lon_in, lon_out>>

\* The read wrapped in a try/except that falls back to the whole globe.
GetDomainOrGlobe ==
    /\ Running("get_domain")
    /\ LET path == files_df[1].Path
       IN  domain' = IF Readable(path) THEN get_domain(path) ELSE <<-90, 90, 0, 360>>
    /\ pc' = "load_best_track"
    /\ UNCHANGED <<error, args, observations_dir, files_df, best_track_csv,
                   genesis_df, best_track_df, files_genesis_df, labels_df,
                   output, lon_in, lon_out>>

\* domain = get_domain(files_df['Path'].iloc[0])
GetDomain ==
    /\ Running("get_domain")
    /\ LET path == files_df[1].Path
       IN  IF Readable(path)
           THEN /\ domain' = get_domain(path)
                /\ pc' = "load_best_track"
                /\ UNCHANGED error
           ELSE /\ error' = <<"OSError">>
                /\ UNCHANGED <<pc, domain>>
    /\ UNCHANGED <<args, observations_dir, files_df, best_track_csv, genesis_df,
                   best_track_df, files_genesis_df, labels_df, output,
                   lon_in, lon_out>>

\* genesis_df, best_track_df = load_best_track(args.best_track, domain).
\* pd.to_datetime raises ValueError on a cell that does not match the format.
LoadBestTrack ==
    /\ Running("load_best_track")
    /\ \E csv \in Catalogs :
        /\ best_track_csv' = csv
        /\ IF \E i \in DOMAIN csv : csv[i].ISO_TIME = <<>>
           THEN /\ error' = <<"ValueError">>
                /\ UNCHANGED <<pc, genesis_df, best_track_df>>
           ELSE /\ genesis_df' = load_best_track(csv, domain)[1]
                /\ best_track_df' = load_best_track(csv, domain)[2]
                /\ pc' = "merge"
                /\ UNCHANGED error
    /\ UNCHANGED <<args, observations_dir, files_df, domain, files_genesis_df,
                   labels_df, output, lon_in, lon_out>>

\* files_genesis_df = pd.merge(files_df, genesis_df, how='left', on='Date')
Merge ==
    /\ Running("merge")
    /\ files_genesis_df' = merge_left(files_df, genesis_df)
    /\ pc' = "assert"
    /\ UNCHANGED <<error, args, observations_dir, files_df, domain,
                   best_track_csv, genesis_df, best_track_df, labels_df,
                   output, lon_in, lon_out>>

\* assert len(files_genesis_df) >= len(files_df)
AssertRowCount ==
    /\ Running("assert")
    /\ IF Len(files_genesis_df) >= Len(files_df)
       THEN /\ pc' = "create_labels"
            /\ UNCHANGED error
       ELSE /\ error' = <<"AssertionError">>
            /\ UNCHANGED pc
    /\ UNCHANGED <<args, observations_dir, files_df, domain, best_track_csv,
                   genesis_df, best_track_df, files_genesis_df, labels_df,
                   output, lon_in, lon_out>>

\* labels_df = create_labels(files_genesis_df, best_track_df)
CreateLabels ==
    /\ Running("create_labels")
    /\ labels_df' = create_labels(files_genesis_df, best_track_df)
    /\ pc' = "filter"
    /\ UNCHANGED <<error, args, observations_dir, files_df, domain,
                   best_track_csv, genesis_df, best_track_df, files_genesis_df,
                   output, lon_in, lon_out>>

\* if not args.keep_pre_existing_storms: labels_df = labels_df[...]
FilterPreExisting ==
    /\ Running("filter")
    /\ labels_df' = IF ~args.keep_pre_existing_storms
                    THEN drop_pre_existing(labels_df)
                    ELSE labels_df
    /\ pc' = "to_csv"
    /\ UNCHANGED <<error, args, observations_dir, files_df, domain,
                   best_track_csv, genesis_df, best_track_df, files_genesis_df,
                   output, lon_in, lon_out>>

\* labels_df.to_csv(output_path, index=False)
WriteCsv ==
    /\ Running("to_csv")
    /\ output' = <<labels_df>>
    /\ pc' = "done"
    /\ UNCHANGED <<error, args, observations_dir, files_df, domain,
                   best_track_csv, genesis_df, best_track_df, files_genesis_df,
                   labels_df, lon_in, lon_out>>

Next ==
    \/ ParseArguments
    \/ ListReanalysisFiles
    \/ ShiftAndSort
    \/ GetDomain
    \/ LoadBestTrack
    \/ Merge
    \/ AssertRowCount
    \/ CreateLabels
    \/ FilterPreExisting
    \/ WriteCsv

Spec == Init /\ [][Next]_vars

(* ---------- the longitude conversion, on its own input range ----------- *)

InitLon ==
    /\ pc = "convert_longitude"
    /\ error = <<>>
    /\ args = <<>>
    /\ observations_dir = {}
    /\ files_df = <<>>
    /\ domain = <<>>
    /\ best_track_csv = <<>>
    /\ genesis_df = <<>>
    /\ best_track_df = <<>>
    /\ files_genesis_df = <<>>
    /\ labels_df = <<>>
    /\ output = <<>>
    /\ lon_in \in (0 - MaxLon)..MaxLon
    /\ lon_out = <<>>

\* df['LON'] = df['LON'].apply(lambda l: l if l > 0 else 360 + l)
ConvertLongitude ==
    /\ Running("convert_longitude")
    /\ lon_out' = <<convert_longitude(lon_in)>>
    /\ pc' = "converted"
    /\ UNCHANGED <<error, args, observations_dir, files_df, domain,
                   best_track_csv, genesis_df, best_track_df, files_genesis_df,
                   labels_df, output, lon_in>>

NextLon == ConvertLongitude

SpecLon == InitLon /\ [][NextLon]_vars

(* ------------------------- vocabulary of the claims -------------------- *)

\* The position of a statement of main() in program order.
StageNo(p) ==
    CASE p = "parse_arguments" -> 0
      [] p = "list_reanalysis_files" -> 1
      [] p = "shift_and_sort" -> 2
      [] p = "get_domain" -> 3
      [] p = "load_best_track" -> 4
      [] p = "merge" -> 5
      [] p = "assert" -> 6
      [] p = "create_labels" -> 7
      [] p = "filter" -> 8
      [] p = "to_csv" -> 9
      [] OTHER -> 10

\* The statement `stage` has run to completion.
Completed(stage) == StageNo(pc) > StageNo(stage)

\* The whole catalog after parsing and longitude conversion, before any
\* domain filtering.
CatalogPoints == read_best_track(best_track_csv)

InBox(lat, lon) ==
    /\ domain[1] <= lat /\ lat <= domain[2]
    /\ domain[3] <= lon /\ lon <= domain[4]

\* The number of members of the index set I that are <= i: the position of
\* element i when the members of I are listed in increasing order.
Rank(I, i) == Cardinality({j \in I : j <= i})

(* ---------------------------------- C1 --------------------------------- *)

\* C1: without --keep-pre-existing-storms the written table is exactly the
\* rows of the unfiltered label table that are not (non-genesis with another
\* TC active), in order: no written row is such a row and every genesis row
\* is retained; with the flag every unfiltered row is written.
C1_PostFilter ==
    pc = "done" =>
        LET unfiltered == create_labels(files_genesis_df, best_track_df)
            written == output[1]
            dropped == {i \in DOMAIN unfiltered :
                           ~unfiltered[i].Genesis /\ unfiltered[i].Is_Other_TC_Happening}
            kept == DOMAIN unfiltered \ dropped
        IN  IF args.keep_pre_existing_storms
            THEN written = unfiltered
            ELSE /\ Len(written) = Cardinality(kept)
                 /\ \A i \in kept : written[Rank(kept, i)] = unfiltered[i]
                 /\ \A n \in DOMAIN written :
                        ~(~written[n].Genesis /\ written[n].Is_Other_TC_Happening)
                 /\ \A i \in DOMAIN unfiltered :
                        unfiltered[i].Genesis => \E n \in DOMAIN written : written[n] = unfiltered[i]

\* A run without the flag that dropped a row and kept a genesis row although
\* another TC was active at its time.
C1_Witness ==
    /\ pc = "done"
    /\ ~args.keep_pre_existing_storms
    /\ Len(output[1]) < Len(files_genesis_df)
    /\ \E n \in DOMAIN output[1] :
        output[1][n].Genesis /\ output[1][n].Is_Other_TC_Happening

(* ---------------------------------- C2 --------------------------------- *)

\* C2: every observation file survives the join: it yields exactly one row
\* with empty genesis columns when no in-domain genesis event has its shifted
\* timestamp and exactly one row per such event otherwise, so the joined table
\* never has fewer rows than files_df and the assertion never fails.
C2_LeftJoin ==
    /\ error # <<"AssertionError">>
    /\ Completed("merge") =>
        /\ Len(files_genesis_df) >= Len(files_df)
        /\ \A i \in DOMAIN files_df :
            LET events == {j \in DOMAIN genesis_df : genesis_df[j].Date = files_df[i].Date}
                rows == {n \in DOMAIN files_genesis_df :
                            files_genesis_df[n].Path = files_df[i].Path}
            IN  /\ Cardinality(rows) = IF events = {} THEN 1 ELSE Cardinality(events)
                /\ \A n \in rows :
                    /\ files_genesis_df[n].Date = files_df[i].Date
                    /\ files_genesis_df[n].OriginalDate = files_df[i].OriginalDate
                    /\ events = {} =>
                        /\ files_genesis_df[n].SID = <<>>
                        /\ files_genesis_df[n].LAT = <<>>
                        /\ files_genesis_df[n].LON = <<>>
                        /\ files_genesis_df[n].NATURE = <<>>
                /\ \A j \in events :
                    Cardinality({n \in rows : files_genesis_df[n].SID = <<genesis_df[j].SID>>}) = 1

\* A finished run where one file matched two genesis events and another none.
C2_Witness ==
    /\ pc = "done"
    /\ \E i \in DOMAIN files_df :
        Cardinality({j \in DOMAIN genesis_df : genesis_df[j].Date = files_df[i].Date}) >= 2
    /\ \E i \in DOMAIN files_df :
        \A j \in DOMAIN genesis_df : genesis_df[j].Date # files_df[i].Date

(* ---------------------------------- C4 --------------------------------- *)

\* C4: every row load_best_track returns lies in the domain box, bounds
\* inclusive, longitude as converted; and nothing outside the box reaches a
\* label: a genesis row is the in-box first record of its storm, every
\* location in Other TC Locations is in the box, and Last Observed, Will
\* Develop to TC and Developing Date are those of the storm's in-box records
\* alone.
C4_DomainFilter ==
    /\ Completed("load_best_track") =>
        /\ \A i \in DOMAIN genesis_df : InBox(genesis_df[i].LAT, genesis_df[i].LON)
        /\ \A i \in DOMAIN best_track_df : InBox(best_track_df[i].LAT, best_track_df[i].LON)
    /\ Completed("create_labels") =>
        \A n \in DOMAIN labels_df :
            LET r == labels_df[n]
                df == CatalogPoints
                inside == {i \in DOMAIN df :
                              /\ InBox(df[i].LAT, df[i].LON)
                              /\ r.TC_Id = <<df[i].SID>>}
                ts == {i \in inside : df[i].NATURE = "TS"}
            IN  /\ \A k \in DOMAIN r.Other_TC_Locations :
                    /\ InBox(r.Other_TC_Locations[k][1], r.Other_TC_Locations[k][2])
                    /\ \E i \in DOMAIN df :
                        /\ InBox(df[i].LAT, df[i].LON)
                        /\ <<df[i].LAT, df[i].LON>> = r.Other_TC_Locations[k]
                /\ r.Genesis =>
                    /\ InBox(r.Latitude[1], r.Longitude[1])
                    /\ \E i \in inside :
                        /\ \A j \in 1..(i - 1) : df[j].SID # df[i].SID
                        /\ r.Latitude = <<df[i].LAT>>
                        /\ r.Longitude = <<df[i].LON>>
                        /\ r.Date = df[i].Date
                    /\ r.Last_Observed = <<df[SetMax(inside)].Date>>
                    /\ r.Will_Develop_to_TC = <<ts # {}>>
                    /\ r.Developing_Date = IF ts = {} THEN <<>> ELSE <<df[SetMin(ts)].Date>>

\* A finished run with a genesis row for a storm that also has a record
\* outside the box, and a record outside the box at an observation time.
C4_Witness ==
    /\ pc = "done"
    /\ \E n \in DOMAIN labels_df, i \in DOMAIN CatalogPoints :
        /\ labels_df[n].Genesis
        /\ labels_df[n].TC_Id = <<CatalogPoints[i].SID>>
        /\ ~InBox(CatalogPoints[i].LAT, CatalogPoints[i].LON)
        /\ \E m \in DOMAIN files_df : files_df[m].OriginalDate = CatalogPoints[i].Date

(* ---------------------------------- C5 --------------------------------- *)

\* C5: a label row carries the shifted date (original + leadtime) and is a
\* genesis row iff an in-domain genesis event has that shifted date, while
\* Other TC Locations is the (LAT, LON) of the track points at the row's
\* original date whose SID differs from the row's (all of them when the row has
\* no SID), in catalog order, and Is Other TC Happening says it is non-empty.
C5_LeadTime ==
    (pc = "filter" /\ error = <<>>) =>
        /\ Len(labels_df) = Len(files_genesis_df)
        /\ \A n \in DOMAIN labels_df :
            LET r == labels_df[n]
                row == files_genesis_df[n]
                original == CHOOSE t \in Hours :
                    \E f \in observations_dir : f = row.Path /\ f.datepart = <<t>>
                others == {j \in DOMAIN best_track_df :
                              /\ best_track_df[j].Date = original
                              /\ <<best_track_df[j].SID>> # r.TC_Id}
            IN  /\ r.Path = row.Path
                /\ r.Date = original + args.leadtime
                /\ r.Genesis =
                    (\E j \in DOMAIN genesis_df : genesis_df[j].Date = original + args.leadtime)
                /\ r.Genesis =>
                    \E j \in DOMAIN genesis_df :
                        /\ genesis_df[j].Date = r.Date
                        /\ r.TC_Id = <<genesis_df[j].SID>>
                /\ ~r.Genesis => r.TC_Id = <<>>
                /\ r.Is_Other_TC_Happening = (others # {})
                /\ Len(r.Other_TC_Locations) = Cardinality(others)
                /\ \A j \in others :
                    r.Other_TC_Locations[Rank(others, j)]
                        = <<best_track_df[j].LAT, best_track_df[j].LON>>

\* Labels made with a lead time of one hour: a genesis row for one storm
\* with exactly one other storm on record at the row's original date, and a
\* track point at the shifted date that is not among the locations.
C5_Witness ==
    /\ pc = "filter"
    /\ args.leadtime = 1
    /\ \E n \in DOMAIN labels_df :
        /\ labels_df[n].Genesis
        /\ Len(labels_df[n].Other_TC_Locations) = 1
        /\ \E j \in DOMAIN best_track_df :
            /\ best_track_df[j].Date = files_genesis_df[n].OriginalDate
            /\ <<best_track_df[j].SID>> # labels_df[n].TC_Id

(* ---------------------------------- C6 --------------------------------- *)

\* C6 as stated: the converted longitude is lon + 360 when lon <= 0 and lon
\* when lon > 0, and lies in (0, 360], for every longitude from -360 to 360.
C6_AsStated ==
    (lon_out # <<>> /\ -360 <= lon_in /\ lon_in <= 360) =>
        /\ lon_in <= 0 => lon_out[1] = lon_in + 360
        /\ lon_in > 0 => lon_out[1] = lon_in
        /\ 0 < lon_out[1] /\ lon_out[1] <= 360

\* C6, amended: the converted longitude is lon + 360 when lon <= 0 and lon
\* when lon > 0; it lies in (0, 360] exactly when -360 < lon <= 360, and
\* lon = -360 is converted to 0.
C6_Conversion ==
    lon_out # <<>> =>
        /\ lon_in <= 0 => lon_out[1] = lon_in + 360
        /\ lon_in > 0 => lon_out[1] = lon_in
        /\ (0 < lon_out[1] /\ lon_out[1] <= 360) <=> (-360 < lon_in /\ lon_in <= 360)
        /\ lon_in = -360 => lon_out[1] = 0

\* Longitude 0 has been converted, to 360.
C6_Witness == lon_in = 0 /\ lon_out = <<360>>

(* ---------------------------------- C7 --------------------------------- *)

\* What holds of every state of a run, failed or not: nothing a statement
\* assigns is set before the statement has completed, a failed run has written
\* nothing, and bad input has stopped the run at the statement that reads it.
C7_State ==
    /\ ~Completed("list_reanalysis_files") => files_df = <<>>
    /\ ~Completed("get_domain") => domain = <<>>
    /\ ~Completed("load_best_track") => genesis_df = <<>> /\ best_track_df = <<>>
    /\ ~Completed("merge") => files_genesis_df = <<>>
    /\ ~Completed("create_labels") => labels_df = <<>>
    /\ ~Completed("to_csv") => output = <<>>
    /\ error # <<>> => output = <<>> /\ pc # "done"
    /\ output # <<>> => pc = "done" /\ error = <<>> /\ output = <<labels_df>>
    /\ (\E f \in observations_dir : parse_date_from_nc_filename(f) = <<>>) =>
        error = <<"ValueError">> /\ pc = "list_reanalysis_files"
    /\ Completed("list_reanalysis_files") => observations_dir # {}
    /\ Completed("get_domain") => Readable(files_df[1].Path)
    /\ (\E i \in DOMAIN best_track_csv : best_track_csv[i].ISO_TIME = <<>>) =>
        error = <<"ValueError">> /\ pc = "load_best_track"

\* What holds of every step: a failed run takes no further step (no later
\* statement, no retry), a step that fails leaves the program counter where
\* it was, and a written table is never written again.
C7_Step ==
    /\ error # <<>> => UNCHANGED vars
    /\ (error = <<>> /\ error' # <<>>) => pc' = pc /\ output' = <<>>
    /\ output # <<>> => output' = output
    /\ StageNo(pc') \in {StageNo(pc), StageNo(pc) + 1}

\* C7: a failure at any statement of main() ends the run there: no later
\* statement runs, nothing is retried, and the output table is not written;
\* the table is written at most once, as the last statement, after every
\* earlier statement has succeeded.
C7_FatalErrors == [] C7_State /\ [][C7_Step]_vars

\* A run that failed while loading the catalog, the files already indexed,
\* sorted and the domain read.
C7_Witness ==
    /\ error = <<"ValueError">>
    /\ pc = "load_best_track"
    /\ files_df # <<>>
    /\ domain # <<>>

(* ---------------------------------- C10 -------------------------------- *)

\* C10: the rows of files_df after the sort, of the joined table, of the
\* label table and of the written table are in non-decreasing order of Date,
\* and the domain is that of a file whose shifted timestamp is the earliest.
C10_OutputOrder ==
    /\ Completed("shift_and_sort") =>
        \A i, j \in DOMAIN files_df : i < j => files_df[i].Date <= files_df[j].Date
    /\ Completed("merge") =>
        \A i, j \in DOMAIN files_genesis_df :
            i < j => files_genesis_df[i].Date <= files_genesis_df[j].Date
    /\ Completed("create_labels") =>
        \A i, j \in DOMAIN labels_df : i < j => labels_df[i].Date <= labels_df[j].Date
    /\ pc = "done" =>
        \A i, j \in DOMAIN output[1] : i < j => output[1][i].Date <= output[1][j].Date
    /\ Completed("get_domain") =>
        \E f \in observations_dir :
            /\ domain = get_domain(f)
            /\ Readable(f)
            /\ \A g \in observations_dir :
                f.datepart[1] + args.leadtime <= g.datepart[1] + args.leadtime

\* A written table with rows of two different dates, made from a directory
\* whose files have different grids.
C10_Witness ==
    /\ pc = "done"
    /\ \E i, j \in DOMAIN output[1] : output[1][i].Date < output[1][j].Date
    /\ \E f, g \in observations_dir : get_domain(f) # get_domain(g)

(* ------------------------------ C3, C8, C9 ----------------------------- *)

\* C3: the genesis table before domain filtering holds exactly one event per
\* distinct SID, and its timestamp is <= that of every record of the storm.
C3_GenesisIsEarliest ==
    Completed("load_best_track") =>
        LET df == CatalogPoints
            genesis == groupby_first(df)
        IN  /\ \A i \in DOMAIN df :
                Cardinality({k \in DOMAIN genesis : genesis[k].SID = df[i].SID}) = 1
            /\ \A k \in DOMAIN genesis : \E i \in DOMAIN df : genesis[k] = df[i]
            /\ \A k \in DOMAIN genesis, i \in DOMAIN df :
                df[i].SID = genesis[k].SID => genesis[k].Date <= df[i].Date

\* C8: for every genesis row the storm has a track point and Last Observed
\* is the greatest timestamp among the storm's track points.
C8_LastObservedIsMax ==
    Completed("create_labels") =>
        \A n \in DOMAIN labels_df :
            LET r == labels_df[n]
                dates == {best_track_df[i].Date : i \in
                             {j \in DOMAIN best_track_df : <<best_track_df[j].SID>> = r.TC_Id}}
            IN  r.Genesis => dates # {} /\ r.Last_Observed = <<SetMax(dates)>>

\* C9: for every genesis row Will Develop to TC says whether the storm has
\* a "TS" track point, Developing Date is present iff it has, it is then the
\* timestamp of the first such point and First Observed <= Developing Date
\* <= Last Observed; a non-genesis row carries neither field.
C9_DevelopmentLabels ==
    Completed("create_labels") =>
        \A n \in DOMAIN labels_df :
            LET r == labels_df[n]
                ts == {j \in DOMAIN best_track_df :
                          /\ <<best_track_df[j].SID>> = r.TC_Id
                          /\ best_track_df[j].NATURE = "TS"}
            IN  /\ r.Genesis =>
                    /\ r.Will_Develop_to_TC = <<ts # {}>>
                    /\ (r.Developing_Date # <<>>) = (ts # {})
                    /\ ts # {} =>
                        /\ r.Developing_Date = <<best_track_df[SetMin(ts)].Date>>
                        /\ r.First_Observed[1] <= r.Developing_Date[1]
                        /\ r.Developing_Date[1] <= r.Last_Observed[1]
                /\ ~r.Genesis => r.Will_Develop_to_TC = <<>> /\ r.Developing_Date = <<>>

====
